---------------------------- MODULE Spec2Model ----------------------------
(***************************************************************************)
(* A model of genny's auto_tasks.py: the generation of evergreen tasks     *)
(* from the workload yaml files of a checkout.                             *)
(*                                                                         *)
(* Strings the code only compares (expansion keys and values, yaml keys)   *)
(* are TLA+ strings.  Strings the code takes apart (file names, setup     *)
(* names) are sequences of characters; in a file name the extension        *)
(* ".yml" is one element of the sequence.  A path is a sequence of such    *)
(* names, the first being <<"/">> when the path is absolute.  A yaml       *)
(* scalar is Str(s), a yaml list List(<<values>>), a yaml mapping          *)
(* Map(<<pairs>>).                                                         *)
(***************************************************************************)
EXTENDS Integers, Sequences, FiniteSets, TLC

\* ------------------------------------------------------------------ bounds

MaxNameLen == 3

MaxSetups == 2

MaxRequires == 2

MaxWorkloads == 2

MaxFiles == 2

\* ------------------------------------------------------- sequence helpers

RECURSIVE SeqsUpTo(_, _)
SeqsUpTo(S, n) ==
    IF n = 0 THEN {<<>>}
    ELSE LET shorter == SeqsUpTo(S, n - 1)
         IN  shorter \cup {Append(s, x) : s \in {t \in shorter : Len(t) = n - 1}, x \in S}

Range(s) == {s[i] : i \in 1..Len(s)}

IsPrefix(p, s) == Len(p) <= Len(s) /\ SubSeq(s, 1, Len(p)) = p

\* ------------------------------------------------------------ yaml values

\* yaml's null is Python's None.
Null == [k |-> "null", v |-> <<>>]

Str(s) == [k |-> "str", v |-> s]

List(xs) == [k |-> "list", v |-> xs]

\* A mapping keeps its pairs <<key, value>> in document order, keys distinct.
Map(pairs) == [k |-> "map", v |-> pairs]

Keys(m) == [i \in 1..Len(m.v) |-> m.v[i][1]]

HasKey(m, key) == \E i \in 1..Len(m.v) : m.v[i][1] = key

Get(m, key) == m.v[CHOOSE i \in 1..Len(m.v) : m.v[i][1] = key][2]

\* ----------------------------------------------------- results of a call

Ok(x) == [k |-> "ok", v |-> x]

\* An exception: its type and the pieces of its message.
Raise(type, arg) == [k |-> "raise", v |-> [type |-> type, arg |-> arg]]

IsOk(r) == r.k = "ok"

Raised(r, type) == r.k = "raise" /\ r.v.type = type

\* ------------------------------------------------------------- characters

UpperChars == {"A", "B"}

LowerChars == {"a", "b"}

DigitChars == {"0"}

Lower(c) == CASE c = "A" -> "a" [] c = "B" -> "b" [] OTHER -> c

NameAlphabet == {"A", "a", "0", "-"}

YML == ".yml"

\* ------------------------------------------------- Python on yaml values

\* key in value
Contains(val, key) ==
    CASE val.k = "map" -> Ok(HasKey(val, key))
      [] val.k = "list" -> Ok(\E i \in 1..Len(val.v) : val.v[i] = Str(key))
      [] OTHER -> Raise("TypeError", <<"not iterable">>)

\* value[key]
Subscript(val, key) ==
    CASE val.k = "map" ->
            IF HasKey(val, key) THEN Ok(Get(val, key)) ELSE Raise("KeyError", <<key>>)
      [] OTHER -> Raise("TypeError", <<"not subscriptable by a string">>)

\* len(value)
LenOf(val) ==
    CASE val.k \in {"map", "list", "str"} -> Ok(Len(val.v))
      [] OTHER -> Raise("TypeError", <<"no len()">>)

\* bool(value)
Truthy(val) ==
    CASE val.k = "null" -> FALSE
      [] OTHER -> Len(val.v) > 0

\* [x for x in value]
Iter(val) ==
    CASE val.k = "list" -> Ok(val.v)
      [] val.k = "str" -> Ok([i \in 1..Len(val.v) |-> Str(<<val.v[i]>>)])
      [] val.k = "map" -> Ok([i \in 1..Len(val.v) |-> Str(val.v[i][1])])
      [] OTHER -> Raise("TypeError", <<"not iterable">>)

\* ------------------------------------------------------------------ paths

IsAbs(path) == Len(path) > 0 /\ path[1] = <<"/">>

os_path_join(a, b) == IF IsAbs(b) THEN b ELSE a \o b

os_path_basename(path) == IF Len(path) = 0 THEN <<>> ELSE path[Len(path)]

\* name.split(".yml")[0]
SplitYml0(name) ==
    LET hits == {i \in 1..Len(name) : name[i] = YML}
        first == IF hits = {} THEN Len(name) + 1
                 ELSE CHOOSE i \in hits : \A j \in hits : i <= j
    IN  SubSeq(name, 1, first - 1)

\* A file system: the process's working directory and the documents of the
\* files that exist, by absolute path.
os_path_exists(fs, path) == os_path_join(fs.cwd, path) \in DOMAIN fs.files

\* ------------------------------------------------------------- YamlReader

\* load, from the existence check on
LoadJoined(fs, joined) ==
    IF ~os_path_exists(fs, joined)
    THEN Raise("Exception", <<"File not found", joined>>)
    ELSE Ok(fs.files[os_path_join(fs.cwd, joined)])

YamlReader_load(fs, workspace_root, path) ==
    LoadJoined(fs, os_path_join(workspace_root, path))

YamlReader_exists(fs, path) == os_path_exists(fs, path)

\* out[key] = val on a dict kept as a sequence of pairs
DictSet(pairs, key, val) ==
    IF \E i \in 1..Len(pairs) : pairs[i][1] = key
    THEN [i \in 1..Len(pairs) |-> IF pairs[i][1] = key THEN <<key, val>> ELSE pairs[i]]
    ELSE Append(pairs, <<key, val>>)

\* The loop of load_set over the files left, and its body once the file at
\* the head is loaded.
RECURSIVE LoadSetLoop(_, _, _, _)
RECURSIVE LoadSetBody(_, _, _, _, _)
LoadSetLoop(fs, workspace_root, todo, out) ==
    IF todo = <<>> THEN Ok(Map(out))
    ELSE LoadSetBody(fs, workspace_root, todo, out,
                     YamlReader_load(fs, workspace_root, Head(todo)))

LoadSetBody(fs, workspace_root, todo, out, got) ==
    IF ~IsOk(got) THEN got
    ELSE LoadSetLoop(fs, workspace_root, Tail(todo),
                     DictSet(out, SplitYml0(os_path_basename(Head(todo))), got.v))

YamlReader_load_set(fs, workspace_root, files) ==
    LoadSetLoop(fs, workspace_root,
                SelectSeq(files, LAMBDA f : YamlReader_exists(fs, f)), <<>>)

\* --------------------------------------------------- Workload._to_snake_case

\* The end of the match of (.)([A-Z][a-z]+) that starts at i, or 0.
RECURSIVE LowerRunEnd(_, _)
LowerRunEnd(s, j) ==
    IF j + 1 <= Len(s) /\ s[j + 1] \in LowerChars THEN LowerRunEnd(s, j + 1) ELSE j

MatchEnd1(s, i) ==
    IF i + 2 <= Len(s) /\ s[i + 1] \in UpperChars /\ s[i + 2] \in LowerChars
    THEN LowerRunEnd(s, i + 2)
    ELSE 0

\* re.sub("(.)([A-Z][a-z]+)", r"\1_\2", s), from position i on
RECURSIVE Sub1(_, _)
Sub1(s, i) ==
    IF i > Len(s) THEN <<>>
    ELSE LET e == MatchEnd1(s, i)
         IN  IF e > 0
             THEN <<s[i], "_">> \o SubSeq(s, i + 1, e) \o Sub1(s, e + 1)
             ELSE <<s[i]>> \o Sub1(s, i + 1)

\* re.sub("-", "_", s)
Sub2(s) == [i \in 1..Len(s) |-> IF s[i] = "-" THEN "_" ELSE s[i]]

\* re.sub("([a-z0-9])([A-Z])", r"\1_\2", s), from position i on
RECURSIVE Sub3(_, _)
Sub3(s, i) ==
    IF i > Len(s) THEN <<>>
    ELSE IF i + 1 <= Len(s) /\ s[i] \in LowerChars \cup DigitChars /\ s[i + 1] \in UpperChars
         THEN <<s[i], "_", s[i + 1]>> \o Sub3(s, i + 2)
         ELSE <<s[i]>> \o Sub3(s, i + 1)

ToLower(s) == [i \in 1..Len(s) |-> Lower(s[i])]

to_snake_case(camel_case) == ToLower(Sub3(Sub2(Sub1(camel_case, 1)), 1))

\* --------------------------------------------------------------- Workload

SRC == <<"s", "r", "c">>

WORKLOADS == <<"workloads">>

\* A Workload object.  requires and setups are Null (None) until set.
WorkloadObj(file_path, is_modified, requires, setups) ==
    [file_path |-> file_path, is_modified |-> is_modified,
     requires |-> requires, setups |-> setups]

NeedExactly(w) ==
    Raise("ValueError", <<"Need exactly mongodb_setup: [list]", w.file_path>>)

\* __init__ from len(prep) on: n is len(prep), has_setup is
\* "mongodb_setup" in prep, setups is prep["mongodb_setup"].
InitSetups(w, n, has_setup, setups) ==
    IF ~IsOk(n) THEN n
    ELSE IF n.v # 1 THEN NeedExactly(w)
    ELSE IF ~IsOk(has_setup) THEN has_setup
    ELSE IF ~has_setup.v THEN NeedExactly(w)
    ELSE IF ~IsOk(setups) THEN setups
    ELSE Ok([w EXCEPT !.setups = setups.v])

InitPrep(w, prep) ==
    InitSetups(w, LenOf(prep), Contains(prep, "mongodb_setup"),
               Subscript(prep, "mongodb_setup"))

\* __init__ from self.requires = auto_run["Requires"] on
InitRequires(w, auto_run, requires) ==
    IF ~IsOk(requires) THEN requires
    ELSE IF ~HasKey(auto_run, "PrepareEnvironmentWith")
    THEN Ok([w EXCEPT !.requires = requires.v])
    ELSE InitPrep([w EXCEPT !.requires = requires.v],
                  Get(auto_run, "PrepareEnvironmentWith"))

\* __init__ from the document loaded on
InitConts(w, loaded) ==
    IF ~IsOk(loaded) THEN loaded
    ELSE IF ~HasKey(loaded.v, "AutoRun") THEN Ok(w)
    ELSE InitRequires(w, Get(loaded.v, "AutoRun"),
                      Subscript(Get(loaded.v, "AutoRun"), "Requires"))

\* Workload.__init__
Workload_init(fs, workspace_root, file_path, is_modified) ==
    InitConts(WorkloadObj(file_path, is_modified, Null, Null),
              YamlReader_load(fs, workspace_root, file_path))

Workload_file_base_name(w) == SplitYml0(os_path_basename(w.file_path))

\* file_path.split("src/workloads/")[1]: what follows the first src/workloads/
RelativeFrom(p, hits) ==
    SubSeq(p, (CHOOSE i \in hits : \A j \in hits : i <= j) + 2, Len(p))

Workload_relative_path(w) ==
    RelativeFrom(w.file_path,
                 {i \in 1..Len(w.file_path) - 1 :
                     w.file_path[i] = SRC /\ w.file_path[i + 1] = WORKLOADS})

GeneratedTask(name, mongodb_setup, workload) ==
    [name |-> name, mongodb_setup |-> mongodb_setup, workload |-> workload]

\* A slip: one task for each distinct setup, a setup listed twice counted
\* once.
TasksNamed_Distinct(w, base, setups) ==
    IF w.setups.k = "null" THEN Ok(<<GeneratedTask(base, Null, w)>>)
    ELSE IF ~IsOk(setups) THEN setups
    ELSE Ok(SelectSeq([i \in 1..Len(setups.v) |->
                          IF \E j \in 1..(i - 1) : setups.v[j] = setups.v[i]
                          THEN Null
                          ELSE GeneratedTask(base \o <<"_">> \o to_snake_case(setups.v[i].v),
                                             setups.v[i], w)],
                      LAMBDA t : t # Null))

\* all_tasks, with base the snake case of the base name and setups the
\* iteration of self.setups
TasksNamed(w, base, setups) ==
    IF w.setups.k = "null" THEN Ok(<<GeneratedTask(base, Null, w)>>)
    ELSE IF ~IsOk(setups) THEN setups
    ELSE Ok([i \in 1..Len(setups.v) |->
               GeneratedTask(base \o <<"_">> \o to_snake_case(setups.v[i].v),
                             setups.v[i], w)])

\* Workload.all_tasks
Workload_all_tasks(w) ==
    TasksNamed(w, to_snake_case(Workload_file_base_name(w)), Iter(w.setups))

\* ------------------------------------------------------- CurrentBuildInfo

EXPANSIONS_YML == <<<<"expansions", YML>>>>

BuildOf(loaded) == IF ~IsOk(loaded) THEN loaded ELSE Ok([conts |-> loaded.v])

CurrentBuildInfo_init(fs, workspace_root) ==
    BuildOf(YamlReader_load(fs, workspace_root, EXPANSIONS_YML))

AnyEqual(actual, acceptable_values) ==
    \E i \in 1..Len(acceptable_values.v) : actual = acceptable_values.v[i]

CurrentBuildInfo_has(build, key, acceptable_values) ==
    IF ~HasKey(build.conts, key)
    THEN Raise("Exception", <<"Unknown key", key>>)
    ELSE Ok(AnyEqual(Get(build.conts, key), acceptable_values))

\* ------------------------------------------------- Workload.variant_tasks

LogLine(msg, w, key, acceptable_values, build) ==
    [msg |-> msg,
     workload_base_name |-> Workload_file_base_name(w),
     key |-> key,
     acceptable_values |-> acceptable_values,
     build_variant |-> IF HasKey(build.conts, "build_variant")
                       THEN Get(build.conts, "build_variant") ELSE Str("unknown")]

\* The loop of meets_criteria over the pairs left, with okay and the lines
\* logged so far, and its body once has() has answered.  A has() that
\* raises ends the loop before its line is logged.
RECURSIVE MeetsLoop(_, _, _, _, _)
RECURSIVE MeetsBody(_, _, _, _, _, _)
MeetsLoop(w, build, pairs, okay, log) ==
    IF pairs = <<>> THEN [res |-> Ok(okay), log |-> log]
    ELSE MeetsBody(w, build, pairs, okay, log,
                   CurrentBuildInfo_has(build, Head(pairs)[1], Head(pairs)[2]))

\* A slip: okay = the answer of has(), what the pairs before gave forgotten.
MeetsBody_LastWins(w, build, pairs, okay, log, got) ==
    IF ~IsOk(got) THEN [res |-> got, log |-> log]
    ELSE MeetsLoop(w, build, Tail(pairs), got.v,
                   Append(log, LogLine(IF got.v THEN "Scheduling workload."
                                       ELSE "Not scheduling workload",
                                       w, Head(pairs)[1], Head(pairs)[2], build)))

MeetsBody(w, build, pairs, okay, log, got) ==
    IF ~IsOk(got) THEN [res |-> got, log |-> log]
    ELSE MeetsLoop(w, build, Tail(pairs), okay /\ got.v,
                   Append(log, LogLine(IF got.v THEN "Scheduling workload."
                                       ELSE "Not scheduling workload",
                                       w, Head(pairs)[1], Head(pairs)[2], build)))

meets_criteria(w, build) ==
    IF w.requires.k # "map"
    THEN [res |-> Raise("AttributeError", <<"items">>), log |-> <<>>]
    ELSE MeetsLoop(w, build, w.requires.v, TRUE, <<>>)

\* [task for task in tasks if meets_criteria()]: one call of meets_criteria
\* for each task; m is what the call for the task at the head gave.
RECURSIVE FilterTasks(_, _, _, _, _)
RECURSIVE FilterBody(_, _, _, _, _, _)
FilterTasks(w, build, tasks, kept, log) ==
    IF tasks = <<>> THEN [res |-> Ok(kept), log |-> log]
    ELSE FilterBody(w, build, tasks, kept, log, meets_criteria(w, build))

FilterBody(w, build, tasks, kept, log, m) ==
    IF ~IsOk(m.res) THEN [res |-> m.res, log |-> log \o m.log]
    ELSE FilterTasks(w, build, Tail(tasks),
                     IF m.res.v THEN Append(kept, Head(tasks)) ELSE kept,
                     log \o m.log)

VariantOf(w, build, all) ==
    IF ~IsOk(all) THEN [res |-> all, log |-> <<>>]
    ELSE FilterTasks(w, build, all.v, <<>>, <<>>)

\* A slip: the early return on a workload without requirements left out.
Workload_variant_tasks_NoGuard(w, build) ==
    VariantOf(w, build, Workload_all_tasks(w))

\* Workload.variant_tasks: the list returned (or the exception raised) and
\* the lines logged.
Workload_variant_tasks(w, build) ==
    IF ~Truthy(w.requires) THEN [res |-> Ok(<<>>), log |-> <<>>]
    ELSE VariantOf(w, build, Workload_all_tasks(w))

\* --------------------------------------------------------- WorkloadLister

\* glob(root/src/workloads/**/*.yml), not recursive: ** is one directory.
WorkloadLister_all_workload_files(fs, genny_repo_root) ==
    {p \in DOMAIN fs.files :
        /\ Len(p) = Len(genny_repo_root) + 4
        /\ SubSeq(p, 1, Len(genny_repo_root) + 2) = genny_repo_root \o <<SRC, WORKLOADS>>
        /\ Len(p[Len(p)]) >= 2
        /\ p[Len(p)][1] # YML
        /\ p[Len(p)][Len(p[Len(p)])] = YML}

\* git diff --name-only ...: git.ok is whether the command exits with 0,
\* git.lines the paths it prints, relative to the repo root.
WorkloadLister_modified_workload_files(git, genny_repo_root) ==
    IF ~git.ok THEN Raise("CalledProcessError", <<"git diff">>)
    ELSE Ok({os_path_join(genny_repo_root, line) :
                line \in {l \in git.lines : l[Len(l)][Len(l[Len(l)])] = YML}})

\* ------------------------------------------------------------ CLIOperation

ALL_TASKS == "ALL_TASKS"

VARIANT_TASKS == "VARIANT_TASKS"

PATCH_TASKS == "PATCH_TASKS"

\* reader.load(workspace_root, "expansions.yml")["build_variant"]
VariantOfLoaded(loaded) ==
    IF ~IsOk(loaded) THEN loaded ELSE Subscript(loaded.v, "build_variant")

ReadVariant(fs, workspace_root) ==
    VariantOfLoaded(YamlReader_load(fs, workspace_root, EXPANSIONS_YML))

\* A slip: a mode that is none of the three is no mode.
ModeOf_Strict(mode_name) ==
    CASE mode_name = "variant_tasks" -> VARIANT_TASKS
      [] mode_name = "patch_tasks" -> PATCH_TASKS
      [] mode_name = "all_tasks" -> ALL_TASKS
      [] OTHER -> "INVALID"

ModeOf(mode_name) ==
    CASE mode_name = "variant_tasks" -> VARIANT_TASKS
      [] mode_name = "patch_tasks" -> PATCH_TASKS
      [] OTHER -> ALL_TASKS

\* create, with read what the read of build_variant gives when it is made
CreateWith(mode_name, read, genny_repo_root, workspace_root) ==
    IF mode_name \in {"patch_tasks", "variant_tasks"} /\ ~IsOk(read) THEN read
    ELSE Ok([mode |-> ModeOf(mode_name),
             variant |-> IF mode_name \in {"patch_tasks", "variant_tasks"}
                         THEN read.v ELSE Null,
             genny_repo_root |-> genny_repo_root,
             workspace_root |-> workspace_root])

CLIOperation_create(fs, mode_name, genny_repo_root, workspace_root) ==
    CreateWith(mode_name, ReadVariant(fs, workspace_root), genny_repo_root, workspace_root)

\* -------------------------------------------------------------------- Repo

\* The list comprehension of all_workloads over the files left, and its
\* body once the Workload of the file at the head is built; order is the
\* order in which the set all_files is iterated.
RECURSIVE WorkloadsLoop(_, _, _, _, _)
RECURSIVE WorkloadsBody(_, _, _, _, _, _)
WorkloadsLoop(fs, workspace_root, order, modified, built) ==
    IF order = <<>> THEN Ok(built)
    ELSE WorkloadsBody(fs, workspace_root, order, modified, built,
                       Workload_init(fs, workspace_root, Head(order),
                                     Head(order) \in modified))

WorkloadsBody(fs, workspace_root, order, modified, built, w) ==
    IF ~IsOk(w) THEN w
    ELSE WorkloadsLoop(fs, workspace_root, Tail(order), modified, Append(built, w.v))

WorkloadsOf(repo, modified) ==
    IF ~IsOk(modified) THEN modified
    ELSE WorkloadsLoop(repo.fs, repo.workspace_root, repo.order, modified.v, <<>>)

\* A repo: its file system, its roots, git's answer and the iteration order
\* of the set of workload files.
Repo_all_workloads(repo) ==
    WorkloadsOf(repo, WorkloadLister_modified_workload_files(repo.git, repo.genny_repo_root))

\* A slip: the filter on is_modified left out.
ModifiedOf_Unfiltered(all) == all

ModifiedOf(all) ==
    IF ~IsOk(all) THEN all ELSE Ok(SelectSeq(all.v, LAMBDA w : w.is_modified))

Repo_modified_workloads(repo) == ModifiedOf(Repo_all_workloads(repo))

\* [task for workload in workloads for task in workload.all_tasks()], or in
\* workload.variant_tasks(build) when variant is TRUE, with the lines
\* logged; got is what the workload at the head gave.
RECURSIVE FlattenTasks(_, _, _, _, _)
RECURSIVE FlattenBody(_, _, _, _, _, _)
FlattenTasks(workloads, variant, build, tasks, log) ==
    IF workloads = <<>> THEN [res |-> Ok(tasks), log |-> log]
    ELSE FlattenBody(workloads, variant, build, tasks, log,
                     IF variant THEN Workload_variant_tasks(Head(workloads), build)
                     ELSE [res |-> Workload_all_tasks(Head(workloads)), log |-> <<>>])

FlattenBody(workloads, variant, build, tasks, log, got) ==
    IF ~IsOk(got.res) THEN [res |-> got.res, log |-> log \o got.log]
    ELSE FlattenTasks(Tail(workloads), variant, build,
                      tasks \o got.res.v, log \o got.log)

TasksOf(workloads, variant, build) ==
    IF ~IsOk(workloads) THEN [res |-> workloads, log |-> <<>>]
    ELSE FlattenTasks(workloads.v, variant, build, <<>>, <<>>)

Repo_all_tasks(repo) == TasksOf(Repo_all_workloads(repo), FALSE, Null)

Repo_variant_tasks(repo, build) == TasksOf(Repo_all_workloads(repo), TRUE, build)

Repo_patch_tasks(repo) == TasksOf(Repo_modified_workloads(repo), FALSE, Null)

Repo_tasks(repo, op, build) ==
    CASE op.mode = ALL_TASKS -> Repo_all_tasks(repo)
      [] op.mode = PATCH_TASKS -> Repo_patch_tasks(repo)
      [] op.mode = VARIANT_TASKS -> Repo_variant_tasks(repo, build)
      [] OTHER -> [res |-> Raise("Exception", <<"Invalid operation mode">>), log |-> <<>>]

\* ------------------------------------------------------------ ConfigWriter

EXEC_TIMEOUT == 64800

TASK_EXEC_TIMEOUT == 86400

TASK_TIMEOUT == 7200

PRIORITY == 5

ConfigWriter_variant_tasks(tasks, variant) ==
    [kind |-> "variant",
     variant |-> variant,
     tasks |-> [i \in 1..Len(tasks) |-> tasks[i].name]]

\* The vars of f_run_dsi_workload for one task.
Bootstrap(task) ==
    [test_control |-> task.name,
     auto_workload_path |-> Workload_relative_path(task.workload),
     mongodb_setup |-> IF Truthy(task.mongodb_setup) THEN task.mongodb_setup ELSE Null]

ConfigWriter_all_tasks_modern(tasks) ==
    [kind |-> "all",
     exec_timeout_secs |-> EXEC_TIMEOUT,
     tasks |-> [i \in 1..Len(tasks) |->
                  [name |-> tasks[i].name,
                   priority |-> PRIORITY,
                   timeout_update |-> [exec_timeout_secs |-> TASK_EXEC_TIMEOUT,
                                       timeout_secs |-> TASK_TIMEOUT],
                   f_run_dsi_workload |-> Bootstrap(tasks[i])]]]

\* The configuration write() builds for the tasks.
ConfigWriter_config(op, tasks) ==
    IF op.mode # ALL_TASKS
    THEN ConfigWriter_variant_tasks(tasks, op.variant)
    ELSE ConfigWriter_all_tasks_modern(tasks)

\* config.to_json(): the text, as the sequence of its pieces.  A task is
\* one piece in a variant's list, and three (its name, its path, its setup)
\* as a task definition.
RECURSIVE JsonTasks(_, _)
JsonTasks(config, i) ==
    IF i > Len(config.tasks) THEN <<>>
    ELSE (IF config.kind = "variant" THEN <<config.tasks[i]>>
          ELSE <<config.tasks[i].name,
                 <<config.tasks[i].f_run_dsi_workload.auto_workload_path>>,
                 <<config.tasks[i].f_run_dsi_workload.mongodb_setup>>>>)
         \o JsonTasks(config, i + 1)

to_json(config) ==
    <<<<"{">>, <<config.kind>>>> \o JsonTasks(config, 1) \o <<<<"}">>>>

\* ------------------------------------------------------------ the inputs

ROOT == <<"/">>

\* The checkout and the workspace of a run, and another directory.
REPO == <<ROOT, <<"repo">>>>

WS == <<ROOT, <<"ws">>>>

ELSEWHERE == <<ROOT, <<"tmp">>>>

Absent == [k |-> "absent", v |-> <<>>]

\* File base names, before the extension.
Names == SeqsUpTo(NameAlphabet, MaxNameLen) \ {<<>>}

SetupIds == {<<"a">>, <<"A", "a">>, <<"b", "-", "B">>}

SetupLists == {List(l) : l \in SeqsUpTo({Str(id) : id \in SetupIds}, MaxSetups)}

FewSetupLists == {List(l) : l \in SeqsUpTo({Str(<<"a">>), Str(<<"A", "a">>)}, MaxSetups)}

ReqKeys == {"build_variant", "mongodb", "platform"}

AcceptLists == {List(<<Str("x")>>), List(<<Str("y"), Str("x")>>)}

DistinctKeys(pairs) == \A i, j \in 1..Len(pairs) : pairs[i][1] = pairs[j][1] => i = j

\* The values of Requires: no value, or a mapping of keys to lists.
RequiresChoices ==
    {Null} \cup {Map(ps) : ps \in {q \in SeqsUpTo(ReqKeys \X AcceptLists, MaxRequires) :
                                       DistinctKeys(q)}}

\* The values of PrepareEnvironmentWith that are mongodb_setup: [list].
GoodPreps(lists) == {Map(<<<<"mongodb_setup", l>>>>) : l \in lists}

\* The other shapes: an empty block, a wrong key, two entries, no value, a
\* list, and a mongodb_setup that is a string or has no value.
BadPreps ==
    {Map(<<>>),
     Map(<<<<"mongodb", List(<<Str(<<"a">>)>>)>>>>),
     Map(<<<<"mongodb_setup", List(<<Str(<<"a">>)>>)>>, <<"other", List(<<>>)>>>>),
     Null,
     List(<<Str("mongodb_setup")>>),
     List(<<Str("a"), Str("b")>>),
     Map(<<<<"mongodb_setup", Str(<<"a", "b">>)>>>>),
     Map(<<<<"mongodb_setup", Null>>>>)}

\* A workload document with an AutoRun block; Absent leaves the key out.
AutoRunDoc(requires, prep) ==
    Map(<<<<"AutoRun",
            Map((IF requires.k = "absent" THEN <<>> ELSE <<<<"Requires", requires>>>>)
                \o (IF prep.k = "absent" THEN <<>> ELSE <<<<"PrepareEnvironmentWith", prep>>>>))>>>>)

NoAutoRunDocs == {Map(<<>>), Map(<<<<"SchemaVersion", Str("2018-07-01")>>>>)}

WorkloadPath(dir, name) == REPO \o <<SRC, WORKLOADS, dir, name \o <<YML>>>>

\* The expansions: each key absent or with one of its values.
ExpansionDocs ==
    {Map((IF bv = "" THEN <<>> ELSE <<<<"build_variant", Str(bv)>>>>)
         \o (IF db = "" THEN <<>> ELSE <<<<"mongodb", Str(db)>>>>)
         \o (IF pf = "" THEN <<>> ELSE <<<<"platform", Str(pf)>>>>)) :
        bv \in {"", "x", "y"}, db \in {"", "x"}, pf \in {"", "y"}}

\* A file system with these files, seen from cwd.
FileSystem(cwd, files) == [cwd |-> cwd, files |-> files]

OneFile(path, doc) == [p \in {path} |-> doc]

ModeNames == {"all_tasks", "patch_tasks", "variant_tasks", "bogus"}

\* --------------------------------------------------------------- the state

\* pc: "idle", "returned" after a call of one method, or the place of a run
\* of main.  call: the method called and its arguments.  ret: what the call
\* returned or raised.  log: the lines logged by the call.  disk: the output
\* file build/TaskJSON/Tasks.json of the workspace.  wr: the locals of
\* ConfigWriter.write.
VARIABLES pc, call, ret, log, disk, wr

vars == <<pc, call, ret, log, disk, wr>>

NoFile == [exists |-> FALSE, by |-> "nobody", text |-> <<>>]

OldFile == [exists |-> TRUE, by |-> "earlier run", text |-> <<>>]

NoWrite ==
    [op |-> Null, tasks |-> <<>>, config |-> Null, out_text |-> <<>>,
     success |-> FALSE, raised |-> Null]

Init ==
    /\ pc = "idle"
    /\ call = [op |-> "none"]
    /\ ret = Null
    /\ log = <<>>
    /\ disk = NoFile
    /\ wr = NoWrite

\* ---- YamlReader.load and YamlReader.load_set

ReaderNames == {<<"e", YML>>, <<"b">>}

ReaderPaths == {<<n>> : n \in ReaderNames} \cup {WS \o <<n>> : n \in ReaderNames}

ReaderFiles == {d \o <<n>> : d \in {WS, ELSEWHERE}, n \in ReaderNames}

ReaderFileSystems ==
    {FileSystem(cwd, [p \in present |-> Str(p)]) :
        cwd \in {WS, ELSEWHERE}, present \in SUBSET ReaderFiles}

CallLoad ==
    /\ pc = "idle"
    /\ \E fs \in ReaderFileSystems, path \in ReaderPaths :
        /\ call' = [op |-> "load", fs |-> fs, workspace_root |-> WS, path |-> path]
        /\ ret' = YamlReader_load(fs, WS, path)
    /\ pc' = "returned"
    /\ UNCHANGED <<log, disk, wr>>

CallLoadSet ==
    /\ pc = "idle"
    /\ \E fs \in ReaderFileSystems, files \in SeqsUpTo(ReaderPaths, MaxFiles) :
        /\ call' = [op |-> "load_set", fs |-> fs, workspace_root |-> WS, files |-> files]
        /\ ret' = YamlReader_load_set(fs, WS, files)
    /\ pc' = "returned"
    /\ UNCHANGED <<log, disk, wr>>

\* ---- Workload.__init__

\* The workload file of a call on one workload: src/workloads/d/Aa.yml
VariantPath == WorkloadPath(<<"d">>, <<"A", "a">>)

InitDocs ==
    NoAutoRunDocs
    \cup {AutoRunDoc(r, p) : r \in RequiresChoices \cup {Absent},
                             p \in GoodPreps(FewSetupLists) \cup BadPreps \cup {Absent}}

CallWorkload ==
    /\ pc = "idle"
    /\ \E doc \in InitDocs, is_modified \in BOOLEAN :
        /\ call' = [op |-> "Workload", path |-> VariantPath, doc |-> doc,
                    is_modified |-> is_modified]
        /\ ret' = Workload_init(FileSystem(WS, OneFile(VariantPath, doc)), WS,
                                VariantPath, is_modified)
    /\ pc' = "returned"
    /\ UNCHANGED <<log, disk, wr>>

\* ---- Workload.all_tasks, on a workload as __init__ builds it

NameDocs ==
    NoAutoRunDocs
    \cup {AutoRunDoc(Null, p) : p \in GoodPreps(SetupLists) \cup {Absent}}

CallAllTasks ==
    /\ pc = "idle"
    /\ \E name \in Names, doc \in NameDocs :
        \E w \in {Workload_init(FileSystem(WS, OneFile(WorkloadPath(<<"d">>, name), doc)),
                                 WS, WorkloadPath(<<"d">>, name), FALSE)} :
            /\ call' = [op |-> "all_tasks", name |-> name, doc |-> doc, self |-> w.v]
            /\ ret' = Workload_all_tasks(w.v)
    /\ pc' = "returned"
    /\ UNCHANGED <<log, disk, wr>>

\* ---- Workload.variant_tasks, on a workload as __init__ builds it

VariantDocs ==
    NoAutoRunDocs
    \cup {AutoRunDoc(r, p) : r \in RequiresChoices,
                             p \in GoodPreps(FewSetupLists) \cup {Absent}}

CallVariantTasks ==
    /\ pc = "idle"
    /\ \E doc \in VariantDocs, conts \in ExpansionDocs :
        \E w \in {Workload_init(FileSystem(WS, OneFile(VariantPath, doc)),
                                 WS, VariantPath, FALSE)} :
            \E got \in {Workload_variant_tasks(w.v, [conts |-> conts])} :
                /\ call' = [op |-> "variant_tasks", doc |-> doc, self |-> w.v,
                            build |-> [conts |-> conts]]
                /\ ret' = got.res
                /\ log' = got.log
    /\ pc' = "returned"
    /\ UNCHANGED <<disk, wr>>

\* ---- CLIOperation.create

ExpansionFiles == {<<>>} \cup {OneFile(WS \o EXPANSIONS_YML, d) : d \in ExpansionDocs}

CallCreate ==
    /\ pc = "idle"
    /\ \E mode_name \in ModeNames, files \in ExpansionFiles :
        /\ call' = [op |-> "create", mode_name |-> mode_name, files |-> files]
        /\ ret' = CLIOperation_create(FileSystem(WS, files), mode_name, REPO, WS)
    /\ pc' = "returned"
    /\ UNCHANGED <<log, disk, wr>>

\* ---- Repo.patch_tasks

\* The workload files a checkout may hold: A.yml, Aa.yml, Aaa.yml, ...
SlotName(i) == <<"A">> \o [j \in 1..(i - 1) |-> "a"]

SlotLine(i) == <<SRC, WORKLOADS, <<"d">>, SlotName(i) \o <<YML>>>>

SlotPath(i) == REPO \o SlotLine(i)

\* No AutoRun; Requires alone; Requires and two setups; Requires and an
\* empty list of setups; a PrepareEnvironmentWith that is an empty block.
RepoDocs ==
    {Map(<<>>),
     AutoRunDoc(Map(<<<<"mongodb", List(<<Str("x")>>)>>>>), Absent),
     AutoRunDoc(Map(<<<<"build_variant", List(<<Str("x")>>)>>>>),
                Map(<<<<"mongodb_setup", List(<<Str(<<"a">>), Str(<<"A", "a">>)>>)>>>>)),
     AutoRunDoc(Map(<<<<"mongodb", List(<<Str("x")>>)>>>>),
                Map(<<<<"mongodb_setup", List(<<>>)>>>>)),
     AutoRunDoc(Null, Map(<<>>))}

\* The documents of the workload files that exist, by path.
RepoFiles ==
    UNION {{[p \in {SlotPath(i) : i \in present} |->
                docs[CHOOSE i \in present : SlotPath(i) = p]] :
               docs \in [present -> RepoDocs]} :
           present \in SUBSET (1..MaxWorkloads)}

\* The orders in which a set may be iterated.
Orders(S) ==
    {o \in SeqsUpTo(S, Cardinality(S)) :
        Len(o) = Cardinality(S) /\ \A i, j \in 1..Len(o) : o[i] = o[j] => i = j}

\* What git may answer: a failure, or some of the files as modified.
GitAnswers(slots) ==
    {[ok |-> FALSE, lines |-> {}]}
    \cup {[ok |-> TRUE, lines |-> {SlotLine(i) : i \in m}] : m \in slots}

RepoOf(files, git, order) ==
    [fs |-> FileSystem(WS, files), genny_repo_root |-> REPO, workspace_root |-> WS,
     git |-> git, order |-> order]

CallPatchTasks ==
    /\ pc = "idle"
    /\ \E files \in RepoFiles, git \in GitAnswers(SUBSET (1..MaxWorkloads)) :
        \E order \in Orders(WorkloadLister_all_workload_files(FileSystem(WS, files), REPO)) :
            \E got \in {Repo_patch_tasks(RepoOf(files, git, order))} :
                /\ call' = [op |-> "patch_tasks", repo |-> RepoOf(files, git, order)]
                /\ ret' = got.res
                /\ log' = got.log
    /\ pc' = "returned"
    /\ UNCHANGED <<disk, wr>>

\* ---- main

\* No expansions.yml, or one with build_variant, with build_variant and
\* mongodb, or with mongodb alone.
MainExpansions ==
    {<<>>,
     OneFile(WS \o EXPANSIONS_YML, Map(<<<<"build_variant", Str("x")>>>>)),
     OneFile(WS \o EXPANSIONS_YML,
             Map(<<<<"build_variant", Str("x")>>, <<"mongodb", Str("x")>>>>)),
     OneFile(WS \o EXPANSIONS_YML, Map(<<<<"mongodb", Str("y")>>>>))}

\* f @@ g on the files of two directories
Both(f, g) == [p \in DOMAIN f \cup DOMAIN g |-> IF p \in DOMAIN f THEN f[p] ELSE g[p]]

\* The files in the order of their names.
RECURSIVE SlotOrder(_, _)
SlotOrder(files, i) ==
    IF i > MaxWorkloads THEN <<>>
    ELSE (IF SlotPath(i) \in DOMAIN files THEN <<SlotPath(i)>> ELSE <<>>)
         \o SlotOrder(files, i + 1)

\* main up to writer.write: the operation, the tasks (or what was raised)
\* and the lines logged.
MainTasksOf(op, got) == [res |-> got.res, log |-> got.log, op |-> op]

MainWith(repo, build, op) ==
    IF ~IsOk(build) THEN [res |-> build, log |-> <<>>, op |-> Null]
    ELSE IF ~IsOk(op) THEN [res |-> op, log |-> <<>>, op |-> Null]
    ELSE MainTasksOf(op.v, Repo_tasks(repo, op.v, build.v))

main_tasks(mode_name, repo) ==
    MainWith(repo,
             CurrentBuildInfo_init(repo.fs, repo.workspace_root),
             CLIOperation_create(repo.fs, mode_name, repo.genny_repo_root,
                                 repo.workspace_root))

OUTPUT_FILE == WS \o <<<<"build">>, <<"TaskJSON">>, <<"Tasks.json">>>>

MainStart ==
    /\ pc = "idle"
    /\ \E mode_name \in ModeNames, files \in RepoFiles, expansions \in MainExpansions,
          git \in GitAnswers({{}, 1..MaxWorkloads}) :
        call' = [op |-> "main", mode_name |-> mode_name,
                 repo |-> RepoOf(Both(expansions, files), git, SlotOrder(files, 1))]
    /\ disk' \in {NoFile, OldFile}
    /\ pc' = "main"
    /\ UNCHANGED <<ret, log, wr>>

\* main to the try of ConfigWriter.write
MainCompute ==
    /\ pc = "main"
    /\ \E got \in {main_tasks(call.mode_name, call.repo)} :
        /\ log' = got.log
        /\ IF IsOk(got.res)
           THEN /\ pc' = "to_json"
                /\ ret' = ret
                /\ wr' = [NoWrite EXCEPT !.op = got.op, !.tasks = got.res.v,
                                         !.config = ConfigWriter_config(got.op, got.res.v)]
           ELSE /\ pc' = "exit_fail"
                /\ ret' = got.res
                /\ wr' = wr
    /\ UNCHANGED <<call, disk>>

\* out_text = config.to_json(); os.makedirs(..., exist_ok=True)
WriteMakedirs ==
    /\ pc = "to_json"
    /\ \E ok \in BOOLEAN :
        IF ok
        THEN /\ pc' = "unlink"
             /\ wr' = [wr EXCEPT !.out_text = to_json(wr.config)]
        ELSE /\ pc' = "finally"
             /\ wr' = [wr EXCEPT !.out_text = to_json(wr.config),
                                 !.raised = Raise("OSError", <<"makedirs">>)]
    /\ UNCHANGED <<call, ret, log, disk>>

\* if os.path.exists(output_file): os.unlink(output_file)
WriteUnlink ==
    /\ pc = "unlink"
    /\ IF ~disk.exists
       THEN pc' = "open" /\ UNCHANGED <<disk, wr>>
       ELSE \E ok \in BOOLEAN :
               IF ok
               THEN pc' = "open" /\ disk' = NoFile /\ wr' = wr
               ELSE /\ pc' = "finally"
                    /\ disk' = disk
                    /\ wr' = [wr EXCEPT !.raised = Raise("OSError", <<"unlink">>)]
    /\ UNCHANGED <<call, ret, log>>

\* open(output_file, "w")
WriteOpen ==
    /\ pc = "open"
    /\ \E ok \in BOOLEAN :
        IF ok
        THEN /\ pc' = "write"
             /\ disk' = [exists |-> TRUE, by |-> "this run", text |-> <<>>]
             /\ wr' = wr
        ELSE /\ pc' = "finally"
             /\ disk' = disk
             /\ wr' = [wr EXCEPT !.raised = Raise("OSError", <<"open">>)]
    /\ UNCHANGED <<call, ret, log>>

\* output.write(out_text) and the close of the file: all of the text reaches
\* the file, or the write fails after n of its pieces.
WriteText ==
    /\ pc = "write"
    /\ \E n \in 0..Len(wr.out_text) :
        /\ disk' = [disk EXCEPT !.text = SubSeq(wr.out_text, 1, n)]
        /\ wr' = IF n = Len(wr.out_text)
                 THEN [wr EXCEPT !.success = TRUE]
                 ELSE [wr EXCEPT !.raised = Raise("OSError", <<"write">>)]
    /\ pc' = "finally"
    /\ UNCHANGED <<call, ret, log>>

\* finally: SLOG.info(...), then the return or the raise
WriteFinally ==
    /\ pc = "finally"
    /\ log' = Append(log, [msg |-> IF wr.success THEN "Succeeded" ELSE "Failed",
                           output_file |-> OUTPUT_FILE, raised |-> wr.raised])
    /\ ret' = IF wr.raised.k = "raise" THEN wr.raised ELSE Ok(Null)
    /\ pc' = IF wr.raised.k = "raise" THEN "exit_fail" ELSE "exit_ok"
    /\ UNCHANGED <<call, disk, wr>>

Reset ==
    /\ pc \in {"returned", "exit_ok", "exit_fail"}
    /\ pc' = "idle"
    /\ call' = [op |-> "none"]
    /\ ret' = Null
    /\ log' = <<>>
    /\ disk' = NoFile
    /\ wr' = NoWrite

Next ==
    \/ CallLoad
    \/ CallLoadSet
    \/ CallWorkload
    \/ CallAllTasks
    \/ CallVariantTasks
    \/ CallCreate
    \/ CallPatchTasks
    \/ MainStart
    \/ MainCompute
    \/ WriteMakedirs
    \/ WriteUnlink
    \/ WriteOpen
    \/ WriteText
    \/ WriteFinally
    \/ Reset

Spec == Init /\ [][Next]_vars

\* ------------------------------------------------------------- the claims

Called(op) == pc = "returned" /\ call.op = op

\* The pairs of a Requires block and whether the build has all their keys.
AllKeysKnown(requires, build) ==
    \A i \in 1..Len(requires.v) : HasKey(build.conts, requires.v[i][1])

\* The value the build gives the key of a pair is one of the pair's values.
Satisfied(pair, build) ==
    \E j \in 1..Len(pair[2].v) : Get(build.conts, pair[1]) = pair[2].v[j]

\* C1: variant_tasks of a workload with a non-empty Requires, on a build
\* that has all the required keys, returns all_tasks() when every pair is
\* satisfied and the empty list when one is not.
C1_AllOrNothing ==
    (/\ Called("variant_tasks")
     /\ call.self.requires.k = "map"
     /\ Len(call.self.requires.v) > 0
     /\ AllKeysKnown(call.self.requires, call.build))
    => ret = IF \A i \in 1..Len(call.self.requires.v) :
                    Satisfied(call.self.requires.v[i], call.build)
             THEN Workload_all_tasks(call.self)
             ELSE Ok(<<>>)

\* C1's case: two pairs, the first satisfied and the second not, on a
\* workload of two tasks: none is returned.
C1_Witness ==
    /\ Called("variant_tasks")
    /\ call.self.requires.k = "map"
    /\ Len(call.self.requires.v) = 2
    /\ AllKeysKnown(call.self.requires, call.build)
    /\ Satisfied(call.self.requires.v[1], call.build)
    /\ ~Satisfied(call.self.requires.v[2], call.build)
    /\ Len(Workload_all_tasks(call.self).v) = 2
    /\ ret = Ok(<<>>)

\* The files git reports modified, as all_workloads compares them.
ModifiedFiles(repo) == {repo.genny_repo_root \o line : line \in repo.git.lines}

\* The tasks of a list that come from the workload of a file.
TasksFrom(tasks, file_path) == SelectSeq(tasks, LAMBDA t : t.workload.file_path = file_path)

\* C2: when patch_tasks returns, every task is of a workload whose file is
\* in the modified set, and the tasks of each such workload are all of its
\* all_tasks(), whatever its Requires.
C2_PatchTasks ==
    (Called("patch_tasks") /\ IsOk(ret))
    => /\ \A i \in 1..Len(ret.v) :
            /\ ret.v[i].workload.is_modified
            /\ ret.v[i].workload.file_path \in ModifiedFiles(call.repo)
       /\ \A f \in Range(call.repo.order) \cap ModifiedFiles(call.repo) :
            Ok(TasksFrom(ret.v, f))
                = Workload_all_tasks(Workload_init(call.repo.fs, WS, f, TRUE).v)

\* C2's case: two workloads, the one with a Requires block and two setups
\* modified and the other not: the two tasks of the first are returned.
C2_Witness ==
    /\ Called("patch_tasks")
    /\ IsOk(ret)
    /\ Len(call.repo.order) = 2
    /\ Cardinality(Range(call.repo.order) \cap ModifiedFiles(call.repo)) = 1
    /\ Len(ret.v) = 2
    /\ Truthy(ret.v[1].workload.requires)

\* A run of main past the computation of its tasks.
Computed == call.op = "main" /\ pc # "main"

\* The workloads of the repo of a run, when all of them can be built.
Built(repo) == Repo_all_workloads(repo)

\* The Requires block of workload w names a key the build does not have.
NamesUnknownKey(w, build) ==
    /\ w.requires.k = "map"
    /\ \E i \in 1..Len(w.requires.v) : ~HasKey(build.conts, w.requires.v[i][1])

\* C3: a run in VARIANT mode, on workloads one of which requires a key the
\* expansions do not have, fails with the error that names such a key.
C3_UnknownKeyIsFatal ==
    (/\ Computed
     /\ call.mode_name = "variant_tasks"
     /\ IsOk(CurrentBuildInfo_init(call.repo.fs, WS))
     /\ IsOk(CLIOperation_create(call.repo.fs, call.mode_name, REPO, WS))
     /\ IsOk(Built(call.repo))
     /\ \E i \in 1..Len(Built(call.repo).v) :
            NamesUnknownKey(Built(call.repo).v[i],
                            CurrentBuildInfo_init(call.repo.fs, WS).v))
    => /\ pc = "exit_fail"
       /\ Raised(ret, "Exception")
       /\ ret.v.arg[1] = "Unknown key"
       /\ ~HasKey(CurrentBuildInfo_init(call.repo.fs, WS).v.conts, ret.v.arg[2])

\* C4: a run that fails leaves no file written by it, and a run that
\* succeeds leaves the whole text of the configuration of its tasks.
C4_AllOrNothing ==
    /\ (call.op = "main" /\ pc = "exit_fail") => ~(disk.exists /\ disk.by = "this run")
    /\ (call.op = "main" /\ pc = "exit_ok")
          => /\ disk.exists
             /\ disk.by = "this run"
             /\ disk.text = to_json(ConfigWriter_config(wr.op, wr.tasks))

\* The PrepareEnvironmentWith block of a document that has one.
PrepOf(doc) == Get(Get(doc, "AutoRun"), "PrepareEnvironmentWith")

HasPrep(doc) ==
    /\ HasKey(doc, "AutoRun")
    /\ HasKey(Get(doc, "AutoRun"), "Requires")
    /\ HasKey(Get(doc, "AutoRun"), "PrepareEnvironmentWith")

\* mongodb_setup: [list], and nothing else
GoodShape(prep) ==
    /\ prep.k = "map"
    /\ Len(prep.v) = 1
    /\ prep.v[1][1] = "mongodb_setup"
    /\ prep.v[1][2].k = "list"

\* C5: on a document whose PrepareEnvironmentWith is a block, the
\* construction succeeds only if the block is mongodb_setup: [list], and
\* on every other block it fails with the error that names the file.
C5_PrepShape ==
    (Called("Workload") /\ HasPrep(call.doc) /\ PrepOf(call.doc).k = "map")
    => IF GoodShape(PrepOf(call.doc))
       THEN IsOk(ret)
       ELSE Raised(ret, "ValueError") /\ ret.v.arg[2] = call.path

\* C6: load_set never fails because a file is missing, and load fails
\* with file not found just when the path joined to the root does not exist.
C6_LoadSetSkipsMissing ==
    /\ Called("load_set") => ~(Raised(ret, "Exception") /\ ret.v.arg[1] = "File not found")
    /\ Called("load")
          => ((Raised(ret, "Exception") /\ ret.v.arg[1] = "File not found")
                <=> ~os_path_exists(call.fs, os_path_join(call.workspace_root, call.path)))

\* C7: a workload without an AutoRun block has one task, named by the
\* snake case of its base name and with no setup, and no variant task on
\* any build, not even one without any key.
C7_NoAutoRun ==
    /\ (Called("all_tasks") /\ ~HasKey(call.doc, "AutoRun"))
          => ret = Ok(<<[name |-> to_snake_case(call.name), mongodb_setup |-> Null,
                        workload |-> call.self]>>)
    /\ (Called("variant_tasks") /\ ~HasKey(call.doc, "AutoRun"))
          => ret = Ok(<<>>) /\ log = <<>>

\* C7's case: variant_tasks on a workload without AutoRun and a build
\* without any key.
C7_Witness ==
    /\ Called("variant_tasks")
    /\ ~HasKey(call.doc, "AutoRun")
    /\ call.build.conts = Map(<<>>)
    /\ ret = Ok(<<>>)

\* The list of setups of a document that declares one.
SetupsOf(doc) == Get(PrepOf(doc), "mongodb_setup").v

DeclaresSetups(doc) ==
    /\ HasKey(doc, "AutoRun")
    /\ HasKey(Get(doc, "AutoRun"), "PrepareEnvironmentWith")

\* C8: all_tasks returns one task for each setup declared, in the order of
\* the list and with the setups listed twice, the i-th named by the snake
\* cases of the base name and of the i-th setup; without a list it returns
\* the one task of the base name.
C8_OneTaskPerSetup ==
    Called("all_tasks")
    => IF DeclaresSetups(call.doc)
       THEN /\ IsOk(ret)
            /\ Len(ret.v) = Len(SetupsOf(call.doc))
            /\ \A i \in 1..Len(ret.v) :
                  /\ ret.v[i].name = to_snake_case(call.name) \o <<"_">>
                                        \o to_snake_case(SetupsOf(call.doc)[i].v)
                  /\ ret.v[i].mongodb_setup = SetupsOf(call.doc)[i]
       ELSE /\ IsOk(ret)
            /\ Len(ret.v) = 1
            /\ ret.v[1].name = to_snake_case(call.name)
            /\ ret.v[1].mongodb_setup = Null

\* C8's case: the same setup listed twice gives two tasks of one name.
C8_Witness ==
    /\ Called("all_tasks")
    /\ DeclaresSetups(call.doc)
    /\ Len(SetupsOf(call.doc)) = 2
    /\ SetupsOf(call.doc)[1] = SetupsOf(call.doc)[2]
    /\ call.name = <<"a", "A", "a">>
    /\ Len(ret.v) = 2
    /\ ret.v[1].name = ret.v[2].name

\* C9: variant_tasks on a workload with requirements, all of their keys in
\* the build, logs a line for every pair, those after a failed pair too,
\* and returns tasks only if every pair passed.
C9_EveryPairLogged ==
    (/\ Called("variant_tasks")
     /\ call.self.requires.k = "map"
     /\ Len(call.self.requires.v) > 0
     /\ AllKeysKnown(call.self.requires, call.build))
    => /\ \A i \in 1..Len(call.self.requires.v) :
            \E n \in 1..Len(log) :
                /\ log[n].key = call.self.requires.v[i][1]
                /\ log[n].acceptable_values = call.self.requires.v[i][2]
                /\ log[n].msg = IF Satisfied(call.self.requires.v[i], call.build)
                                THEN "Scheduling workload." ELSE "Not scheduling workload"
       /\ (IsOk(ret) /\ ret.v # <<>>)
            => \A i \in 1..Len(call.self.requires.v) :
                    Satisfied(call.self.requires.v[i], call.build)

KnownModes == {"all_tasks", "patch_tasks", "variant_tasks"}

InvalidMode(r) == Raised(r, "Exception") /\ r.v.arg[1] = "Invalid operation mode"

\* C10: create gives a mode string that is none of the three the mode
\* ALL_TASKS and no variant, and a variant just to patch_tasks and
\* variant_tasks; a run of main never raises Invalid operation mode, and
\* with such a mode string it computes the tasks and the configuration of
\* ALL mode.
C10_UnknownModeIsAll ==
    /\ Called("create")
          => /\ call.mode_name \notin KnownModes
                  => ret = Ok([mode |-> ALL_TASKS, variant |-> Null,
                               genny_repo_root |-> REPO, workspace_root |-> WS])
             /\ IsOk(ret) => (ret.v.variant.k = "str" <=> call.mode_name \in {"patch_tasks", "variant_tasks"})
             /\ (IsOk(ret) /\ ret.v.variant.k = "str")
                  => ret.v.variant = Get(call.files[WS \o EXPANSIONS_YML], "build_variant")
    /\ call.op = "main" => ~InvalidMode(ret)
    /\ (call.op = "main" /\ call.mode_name \notin KnownModes /\ pc \notin {"main", "exit_fail"})
          => /\ wr.op.mode = ALL_TASKS
             /\ wr.op.variant = Null
             /\ Ok(wr.tasks) = Repo_all_tasks(call.repo).res
             /\ wr.config = ConfigWriter_all_tasks_modern(wr.tasks)
    /\ (call.op = "main" /\ call.mode_name \notin KnownModes /\ pc = "exit_ok")
          => disk.text = to_json(ConfigWriter_all_tasks_modern(Repo_all_tasks(call.repo).res.v))

\* C10's case: a run with the mode string bogus ends well, the file holding
\* the task definitions of two workloads.
C10_Witness ==
    /\ call.op = "main"
    /\ call.mode_name = "bogus"
    /\ pc = "exit_ok"
    /\ wr.config.kind = "all"
    /\ Len(wr.tasks) >= 2
    /\ disk.text = wr.out_text

=============================================================================
